---- MODULE Spec2Model ----
(***************************************************************************)
(* GitHubCommitAnalyzer (src/main.py): clone_repo, extract_commit_data,    *)
(* the four analyses and run_full_analysis, over a local clone path, the   *)
(* data/ output directory and the repository's commit log.                 *)
(*                                                                         *)
(* A DataFrame is [none, index, cols]: index is the sequence of row        *)
(* labels, cols maps each column name to the sequence of its values, and   *)
(* none marks Python's None.  A Series is [index, values].                 *)
(*                                                                         *)
(* Time is counted in ticks of half a day since 2021-01-01 00:00 (a        *)
(* Friday); the commit times used lie in 2021 and 2022, both of 365 days.  *)
(***************************************************************************)
EXTENDS Integers, Sequences, FiniteSets, TLC

VARIABLES
    fs_repo,            \* what is on disk at local_repo_path: "absent", "repo", "other"
    fs_data,            \* the names of the files in data/
    log,                \* the repository's commits, newest first (git log order)
    repo,               \* self.repo: "None" or "Repo"
    commits_df,         \* self.commits_df
    contributor_stats,  \* the Series last printed by analyze_contributor_distribution
    commit_trend,       \* the Series last printed by analyze_commit_trend, and its freq
    code_churn,         \* the DataFrame last printed by analyze_code_churn
    trace,              \* the git calls of the last clone_repo, in call order
    raised,             \* the exception the last call ended with, "" if it returned
    pc,                 \* the line of run_full_analysis to execute next; 0: no run in progress
    runs                \* how many times __main__ has been started

vars == <<fs_repo, fs_data, log, repo, commits_df, contributor_stats, commit_trend,
          code_churn, trace, raised, pc, runs>>

----------------------------------------------------------------------------
(* Bounds of the model *)

MaxLog == 4          \* longest commit log
MaxRuns == 2         \* starts of __main__ over the same disk
TicksPerDay == 2     \* resolution of commit times

(* Program constants.  The source walks max_count=800 commits and keeps    *)
(* head(10) contributors; both are scaled down here so that a log longer   *)
(* than the walk and more authors than the head fit the bounds.            *)
max_count == 3
head_n == 2

----------------------------------------------------------------------------
(* Sequences *)

Range(s) == {s[i] : i \in 1..Len(s)}

SeqsUpTo(S, n) == UNION {[1..k -> S] : k \in 0..n}

Perms(n) == {p \in [1..n -> 1..n] : \A i, j \in 1..n : i # j => p[i] # p[j]}

Take(s, n) == IF Len(s) <= n THEN s ELSE SubSeq(s, 1, n)

RECURSIVE SumSeq(_)
SumSeq(s) == IF s = <<>> THEN 0 ELSE Head(s) + SumSeq(Tail(s))

----------------------------------------------------------------------------
(* DataFrame and Series *)

None == [none |-> TRUE, index |-> <<>>, cols |-> <<>>]

NoSeries == [index |-> <<>>, values |-> <<>>]

Columns(df) == DOMAIN df.cols

NRows(df) == Len(df.index)

RangeIndex(n) == [i \in 1..n |-> i - 1]

RawColumns == {"commit_hash", "author_name", "author_email", "commit_time",
               "commit_message", "insertions", "deletions"}

\* pd.DataFrame(list of dicts): the columns are the dicts' keys, the index is
\* 0..n-1; an empty list gives a frame with no columns at all.
DataFrame(commit_data) ==
    LET n == Len(commit_data) IN
    [none  |-> FALSE,
     index |-> RangeIndex(n),
     cols  |-> IF n = 0 THEN <<>>
               ELSE [c \in RawColumns |-> [i \in 1..n |-> commit_data[i][c]]]]

\* df.take(p): the rows in the order p, each keeping its index label.
TakeRows(df, p) ==
    [none  |-> FALSE,
     index |-> [i \in 1..NRows(df) |-> df.index[p[i]]],
     cols  |-> [c \in Columns(df) |-> [i \in 1..NRows(df) |-> df.cols[c][p[i]]]]]

\* The row orders df.sort_values(by) can return: sorted ascending by the
\* column; the default kind is quicksort, so the order of ties is any.
SortOrders(df, by) ==
    {p \in Perms(NRows(df)) :
        \A i, j \in 1..NRows(df) : i < j => df.cols[by][p[i]] <= df.cols[by][p[j]]}

\* df.reset_index(drop=True)
reset_index(df) == [df EXCEPT !.index = RangeIndex(NRows(df))]

\* df[name] = values
SetColumn(df, name, values) ==
    [df EXCEPT !.cols = [c \in Columns(df) \cup {name} |->
                            IF c = name THEN values ELSE df.cols[c]]]

----------------------------------------------------------------------------
(* fix_git_ownership and clone_repo *)

\* fix_git_ownership without its try/except: the exception of the command
\* leaves the function.
fix_git_ownership_unguarded(ok) ==
    [calls  |-> <<IF ok THEN "safe.directory" ELSE "safe.directory failed">>,
     raised |-> IF ok THEN "" ELSE "GitCommandError"]

\* fix_git_ownership: one `git config --global --add safe.directory`; an
\* exception of the command is caught and printed.
fix_git_ownership(ok) ==
    [calls  |-> <<IF ok THEN "safe.directory" ELSE "safe.directory failed, printed">>,
     raised |-> ""]

\* Line 42 with the test inverted.
path_exists_inverted(at_path) == at_path = "absent"

\* Line 42: os.path.exists(self.local_repo_path), on what the disk holds
\* at the path.
path_exists(at_path) == at_path # "absent"

\* self.clone_repo().  ok_config, ok_git: whether the git command of
\* fix_git_ownership, and of clone_from, succeeds; a failed clone may leave
\* a partial directory behind.
clone_repo(ok_config, ok_git) ==
    /\ pc \in {0, 178}
    /\ pc # 0 => raised = ""
    /\ LET fix == fix_git_ownership(ok_config) IN
       IF fix.raised # ""
       THEN /\ trace' = fix.calls
            /\ raised' = fix.raised
            /\ UNCHANGED <<fs_repo, repo>>
       ELSE IF ~path_exists(fs_repo)
       THEN /\ trace' = fix.calls \o <<"clone_from">>
            /\ IF ok_git
               THEN fs_repo' = "repo" /\ repo' = "Repo" /\ raised' = ""
               ELSE /\ fs_repo' \in {"absent", "other"}
                    /\ raised' = "GitCommandError"
                    /\ UNCHANGED repo
       ELSE /\ trace' = fix.calls \o <<"Repo">>
            /\ IF fs_repo = "repo"
               THEN repo' = "Repo" /\ raised' = ""
               ELSE raised' = "InvalidGitRepositoryError" /\ UNCHANGED repo
            /\ UNCHANGED fs_repo
    /\ pc' = IF pc = 0 \/ raised' # "" THEN pc ELSE pc + 1
    /\ UNCHANGED <<fs_data, log, commits_df, contributor_stats, commit_trend,
                   code_churn, runs>>

----------------------------------------------------------------------------
(* extract_commit_data *)

\* repo.iter_commits(max_count=n): the n newest commits.
iter_commits(n) == Take(log, n)

\* Lines 68-76: the record of one commit.  hexsha numbers the commit and
\* stands for its first 8 digits too; committed_date is counted in ticks of
\* local time, so fromtimestamp keeps the number.
commit_info(commit) ==
    [commit_hash    |-> commit.hexsha,
     author_name    |-> commit.author.name,
     author_email   |-> commit.author.email,
     commit_time    |-> commit.committed_date,
     commit_message |-> commit.message,
     insertions     |-> commit.insertions,
     deletions      |-> commit.deletions]

\* Lines 62-80: a commit with a field that raises when read is printed and
\* skipped, the others are appended in walk order.  (The sleep of every
\* 20th commit changes nothing.)
RECURSIVE commit_data(_)
commit_data(commits) ==
    IF commits = <<>> THEN <<>>
    ELSE IF Head(commits).fault # "none" THEN commit_data(Tail(commits))
    ELSE <<commit_info(Head(commits))>> \o commit_data(Tail(commits))

\* Line 84 left out: the frame in walk order.
UnsortedFrames(df) == {df}

\* Lines 83-84 on a frame with rows: every frame sort_values and
\* reset_index can produce.
SortedFrames(df) == {reset_index(TakeRows(df, p)) : p \in SortOrders(df, "commit_time")}

\* self.extract_commit_data()
extract_commit_data ==
    /\ pc \in {0, 179}
    /\ pc # 0 => raised = ""
    /\ IF repo = "None"
       THEN \* line 58: None has no iter_commits
            /\ raised' = "AttributeError"
            /\ UNCHANGED <<commits_df, fs_data>>
       ELSE IF log = <<>>
       THEN \* line 58: a repository without commits has no HEAD to walk from
            /\ raised' = "ValueError"
            /\ UNCHANGED <<commits_df, fs_data>>
       ELSE LET df == DataFrame(commit_data(iter_commits(max_count))) IN
            IF "commit_time" \notin Columns(df)
            THEN \* line 83 has assigned the frame, line 84 raises
                 /\ commits_df' = df
                 /\ raised' = "KeyError"
                 /\ UNCHANGED fs_data
            ELSE /\ commits_df' \in SortedFrames(df)
                 /\ fs_data' = fs_data \cup {"commit_history.csv"}
                 /\ raised' = ""
    /\ pc' = IF pc = 0 \/ raised' # "" THEN pc ELSE pc + 1
    /\ UNCHANGED <<fs_repo, log, repo, contributor_stats, commit_trend,
                   code_churn, trace, runs>>

----------------------------------------------------------------------------
(* Calendar: days are numbered from 2021-01-01 (day 0, a Friday) *)

MonthLen == <<31, 28, 31, 30, 31, 30, 31, 31, 30, 31, 30, 31>>

\* The number of days of the year before the end of month m.
CumDays(m) == SumSeq(SubSeq(MonthLen, 1, m))

\* Series.dt.date, as a day number
Date(t) == t \div TicksPerDay

\* Series.dt.year
Year(t) == 2021 + (Date(t) \div 365)

MonthOf(d) == CHOOSE m \in 1..12 : CumDays(m - 1) <= d % 365 /\ d % 365 < CumDays(m)

MonthEnd(d) == (d \div 365) * 365 + CumDays(MonthOf(d)) - 1

MonthStart(d) == (d \div 365) * 365 + CumDays(MonthOf(d) - 1)

QuarterEnd(d) == (d \div 365) * 365 + CumDays(3 * ((MonthOf(d) + 2) \div 3)) - 1

QuarterStart(d) == (d \div 365) * 365 + CumDays(3 * ((MonthOf(d) - 1) \div 3))

\* Days since the last Sunday (day 2 is Sunday 2021-01-03).
SinceSunday(d) == (d + 5) % 7

\* The frequency strings pandas accepts, among those the model passes.
PandasFreqs == {"ME", "W", "D", "Q"}

\* ts - freq for an anchored offset: the last anchor day before day d.
PrevAnchor(freq, d) ==
    CASE freq = "W"  -> IF SinceSunday(d) = 0 THEN d - 7 ELSE d - SinceSunday(d)
      [] freq = "ME" -> MonthStart(d) - 1
      [] freq = "Q"  -> QuarterStart(d) - 1

\* ts + freq for an anchored offset: the first anchor day after day d.
NextAnchor(freq, d) ==
    CASE freq = "W"  -> d + 7 - SinceSunday(d)
      [] freq = "ME" -> IF d < MonthEnd(d) THEN MonthEnd(d) ELSE MonthEnd(d + 1)
      [] freq = "Q"  -> IF d < QuarterEnd(d) THEN QuarterEnd(d) ELSE QuarterEnd(d + 1)

\* date_range(first, last, freq) between two anchor days.
RECURSIVE date_range(_, _, _)
date_range(first, last, freq) ==
    IF first > last THEN <<>>
    ELSE <<first>> \o date_range(NextAnchor(freq, first), last, freq)

----------------------------------------------------------------------------
(* groupby(pd.Grouper(key, freq)).size(), after pandas' resampling code *)

MinOf(s) == CHOOSE x \in Range(s) : \A y \in Range(s) : x <= y

MaxOf(s) == CHOOSE x \in Range(s) : \A y \in Range(s) : y <= x

\* How many times x occurs in s.
Count(s, x) == Cardinality({i \in 1..Len(s) : s[i] = x})

\* The bin labels and, for each, the day that closes the bin.  An anchored
\* frequency (W, ME, Q) bins right-closed and labels by the closing day: the
\* edges run from the anchor before the first day to the anchor after the
\* last day, each edge moved to the end of its day, and the last edge is
\* dropped when the one before it already covers the latest value.  A day
\* frequency bins left-closed and labels by the day.
Binner(times, freq) ==
    LET first == Date(MinOf(times))
        last  == Date(MaxOf(times))
    IN  IF freq = "D"
        THEN [i \in 1..(last - first + 1) |-> first + i - 1]
        ELSE LET edges == date_range(PrevAnchor(freq, first), NextAnchor(freq, last), freq)
                 n     == Len(edges)
                 kept  == IF last <= edges[n - 1] THEN SubSeq(edges, 1, n - 1) ELSE edges
             IN  Tail(kept)

\* generate_bins_dt64: for each bin, how many values lie at or before its close.
generate_bins(times, binner) ==
    [i \in 1..Len(binner) |->
        Cardinality({j \in 1..Len(times) : Date(times[j]) <= binner[i]})]

\* A grouping by the label of each value instead of by bins: only the
\* labels that have values appear.
SparseSize(times, freq) ==
    LET binner == Binner(times, freq)
        bins   == generate_bins(times, binner)
        sizes  == [i \in 1..Len(binner) |-> IF i = 1 THEN bins[1] ELSE bins[i] - bins[i - 1]]
        seen   == {i \in 1..Len(binner) : sizes[i] > 0}
        nth(k) == CHOOSE i \in seen : Cardinality({j \in seen : j < i}) = k - 1
    IN  [index  |-> [k \in 1..Cardinality(seen) |-> binner[nth(k)]],
         values |-> [k \in 1..Cardinality(seen) |-> sizes[nth(k)]]]

\* size(): the differences of consecutive bins.
GrouperSize(times, freq) ==
    LET binner == Binner(times, freq)
        bins   == generate_bins(times, binner)
    IN  [index  |-> binner,
         values |-> [i \in 1..Len(binner) |->
                        IF i = 1 THEN bins[1] ELSE bins[i] - bins[i - 1]]]

----------------------------------------------------------------------------
(* analyze_contributor_distribution *)

\* The distinct values of a column, in order of first appearance.
RECURSIVE Uniq(_)
Uniq(s) ==
    IF s = <<>> THEN <<>>
    ELSE <<Head(s)>> \o Uniq(SelectSeq(Tail(s), LAMBDA x : x # Head(s)))

\* The orders Series.sort_values(ascending=False) can return for counts:
\* descending; the default kind is quicksort, so the order of ties is any.
DescendingOrders(counts) ==
    {p \in Perms(Len(counts)) :
        \A i, j \in 1..Len(counts) : i < j => counts[p[i]] >= counts[p[j]]}

\* The Series that column.value_counts() can return: the count of each
\* distinct value, sorted by descending count.
value_counts(col) ==
    LET keys   == Uniq(col)
        counts == [i \in 1..Len(keys) |-> Count(col, keys[i])]
    IN  {[index  |-> [i \in 1..Len(keys) |-> keys[p[i]]],
          values |-> [i \in 1..Len(keys) |-> counts[p[i]]]] : p \in DescendingOrders(counts)}

\* Series.head(n)
head(s, n) == [index |-> Take(s.index, n), values |-> Take(s.values, n)]

\* self.analyze_contributor_distribution().  ok_io: whether savefig can
\* write the chart.
analyze_contributor_distribution(ok_io) ==
    /\ pc \in {0, 180}
    /\ pc # 0 => raised = ""
    /\ IF commits_df.none
       THEN raised' = "TypeError" /\ UNCHANGED <<contributor_stats, fs_data>>
       ELSE IF "author_name" \notin Columns(commits_df)
       THEN raised' = "KeyError" /\ UNCHANGED <<contributor_stats, fs_data>>
       ELSE /\ contributor_stats' \in
                  {head(s, head_n) : s \in value_counts(commits_df.cols["author_name"])}
            /\ IF ok_io
               THEN fs_data' = fs_data \cup {"contributor_top10.png"} /\ raised' = ""
               ELSE raised' = "OSError" /\ UNCHANGED fs_data
    /\ pc' = IF pc = 0 \/ raised' # "" THEN pc ELSE pc + 1
    /\ UNCHANGED <<fs_repo, log, repo, commits_df, commit_trend, code_churn, trace, runs>>

----------------------------------------------------------------------------
(* analyze_commit_trend *)

\* Line 117 with a label for every period pandas accepts.
freq_label_lenient == [ME |-> "month", W |-> "week", D |-> "day", Q |-> "quarter"]

\* Line 117: the labels of the supported periods.
freq_label == [ME |-> "month", W |-> "week", D |-> "day"]

\* Line 123: the chart file of a period.
trend_png(freq) == "commit_trend_" \o freq \o ".png"

NoTrend == [freq |-> "", index |-> <<>>, values |-> <<>>]

\* Line 109 assigning the dates to the commit_time column itself.
with_commit_date_in_place(df) ==
    SetColumn(df, "commit_time", [i \in 1..NRows(df) |-> Date(df.cols["commit_time"][i])])

\* Line 109: the frame with its commit_date column set.
with_commit_date(df) ==
    SetColumn(df, "commit_date", [i \in 1..NRows(df) |-> Date(df.cols["commit_time"][i])])

\* self.analyze_commit_trend(freq)
analyze_commit_trend(freq, ok_io) ==
    /\ \/ pc = 0
       \/ pc = 181 /\ freq = "ME"
       \/ pc = 182 /\ freq = "W"
    /\ pc # 0 => raised = ""
    /\ IF commits_df.none
       THEN raised' = "TypeError" /\ UNCHANGED <<commits_df, commit_trend, fs_data>>
       ELSE IF "commit_time" \notin Columns(commits_df)
       THEN raised' = "KeyError" /\ UNCHANGED <<commits_df, commit_trend, fs_data>>
       ELSE /\ commits_df' = with_commit_date(commits_df)
            /\ IF freq \notin PandasFreqs
               THEN \* line 111: pandas knows no such frequency
                    raised' = "ValueError" /\ UNCHANGED <<commit_trend, fs_data>>
               ELSE /\ commit_trend' =
                         [freq |-> freq] @@ GrouperSize(commits_df.cols["commit_time"], freq)
                    /\ IF freq \notin DOMAIN freq_label
                       THEN \* line 117, before the chart is saved
                            raised' = "KeyError" /\ UNCHANGED fs_data
                       ELSE IF ok_io
                       THEN fs_data' = fs_data \cup {trend_png(freq)} /\ raised' = ""
                       ELSE raised' = "OSError" /\ UNCHANGED fs_data
    /\ pc' = IF pc = 0 \/ raised' # "" THEN pc ELSE pc + 1
    /\ UNCHANGED <<fs_repo, log, repo, contributor_stats, code_churn, trace, runs>>

----------------------------------------------------------------------------
(* analyze_code_churn *)

\* The elements of a set of integers, ascending.
RECURSIVE Ascending(_)
Ascending(S) ==
    IF S = {} THEN <<>>
    ELSE LET m == CHOOSE x \in S : \A y \in S : x <= y
         IN  <<m>> \o Ascending(S \ {m})

\* The sum of vals over the rows whose key is k, row by row from row i.
RECURSIVE SumRows(_, _, _, _)
SumRows(keys, vals, k, i) ==
    IF i > Len(keys) THEN 0
    ELSE (IF keys[i] = k THEN vals[i] ELSE 0) + SumRows(keys, vals, k, i + 1)

\* Line 129: the frame with its commit_year column set.
with_commit_year(df) ==
    SetColumn(df, "commit_year", [i \in 1..NRows(df) |-> Year(df.cols["commit_time"][i])])

\* Line 134 with the two columns added.
net_change_sum(insertions, deletions) == insertions + deletions

\* Line 134: net_change of one year.
net_change(insertions, deletions) == insertions - deletions

\* Lines 130-134: groupby("commit_year") with its keys sorted, the sums of
\* insertions and deletions per key, and the net_change column.
churn_by_year(df) ==
    LET keys  == df.cols["commit_year"]
        years == Ascending(Range(keys))
        ins   == [i \in 1..Len(years) |-> SumRows(keys, df.cols["insertions"], years[i], 1)]
        del   == [i \in 1..Len(years) |-> SumRows(keys, df.cols["deletions"], years[i], 1)]
    IN  [none  |-> FALSE,
         index |-> years,
         cols  |-> [insertions |-> ins,
                    deletions  |-> del,
                    net_change |-> [i \in 1..Len(years) |-> net_change(ins[i], del[i])]]]

\* self.analyze_code_churn()
analyze_code_churn(ok_io) ==
    /\ pc \in {0, 183}
    /\ pc # 0 => raised = ""
    /\ IF commits_df.none
       THEN raised' = "TypeError" /\ UNCHANGED <<commits_df, code_churn, fs_data>>
       ELSE IF "commit_time" \notin Columns(commits_df)
       THEN raised' = "KeyError" /\ UNCHANGED <<commits_df, code_churn, fs_data>>
       ELSE /\ commits_df' = with_commit_year(commits_df)
            /\ code_churn' = churn_by_year(commits_df')
            /\ IF ok_io
               THEN fs_data' = fs_data \cup {"code_churn_year.png"} /\ raised' = ""
               ELSE raised' = "OSError" /\ UNCHANGED fs_data
    /\ pc' = IF pc = 0 \/ raised' # "" THEN pc ELSE pc + 1
    /\ UNCHANGED <<fs_repo, log, repo, contributor_stats, commit_trend, trace, runs>>

----------------------------------------------------------------------------
(* generate_commit_message_wordcloud *)

stop_words == {"the", "a", "an", "and", "or", "to", "in", "for", "of", "with", "on",
               "at", "by", "is", "are", "was", "were", "I", "we", "this", "that", "it",
               "fix", "fixed", "update", "add", "remove", "clean", "up"}

\* str.lower on the words of the model's messages.
lower(word) == IF word = "Fix" THEN "fix" ELSE word

\* Lines 153-154: the words of all messages, in row order.
RECURSIVE lcut(_)
lcut(messages) ==
    IF messages = <<>> THEN <<>> ELSE Head(messages) \o lcut(Tail(messages))

\* Line 158
filtered_words(words) ==
    SelectSeq(words, LAMBDA word : Len(word) >= 2 /\ lower(word) \notin stop_words)

\* self.generate_commit_message_wordcloud().  ok_io: whether the font can
\* be read and savefig can write the image.
generate_commit_message_wordcloud(ok_io) ==
    /\ pc \in {0, 184}
    /\ pc # 0 => raised = ""
    /\ IF commits_df.none
       THEN raised' = "TypeError" /\ UNCHANGED fs_data
       ELSE IF "commit_message" \notin Columns(commits_df)
       THEN raised' = "KeyError" /\ UNCHANGED fs_data
       ELSE IF filtered_words(lcut(commits_df.cols["commit_message"])) = <<>>
       THEN \* line 167: WordCloud.generate needs at least one word
            raised' = "ValueError" /\ UNCHANGED fs_data
       ELSE IF ok_io
       THEN fs_data' = fs_data \cup {"commit_message_wordcloud.png"} /\ raised' = ""
       ELSE raised' = "OSError" /\ UNCHANGED fs_data
    /\ pc' = IF pc = 0 \/ raised' # "" THEN pc ELSE pc + 1
    /\ UNCHANGED <<fs_repo, log, repo, commits_df, contributor_stats, commit_trend,
                   code_churn, trace, runs>>

----------------------------------------------------------------------------
(* run_full_analysis and __main__ *)

\* Line 185: the closing print of run_full_analysis.
run_full_analysis_end ==
    /\ pc = 185
    /\ raised = ""
    /\ pc' = 186
    /\ UNCHANGED <<fs_repo, fs_data, log, repo, commits_df, contributor_stats,
                   commit_trend, code_churn, trace, raised, runs>>

\* Lines 188-191: the program is started again once a run has ended, by
\* returning or by an exception; the disk is as the last run left it.
main ==
    /\ pc = 186 \/ (pc # 0 /\ raised # "")
    /\ runs < MaxRuns
    /\ runs' = runs + 1
    /\ repo' = "None"
    /\ commits_df' = None
    /\ contributor_stats' = NoSeries
    /\ commit_trend' = NoTrend
    /\ code_churn' = None
    /\ trace' = <<>>
    /\ raised' = ""
    /\ pc' = 178
    /\ UNCHANGED <<fs_repo, fs_data, log>>

----------------------------------------------------------------------------
(* Inputs *)

Freqs == {"ME", "W", "D", "Q", "X"}

\* The tick of half-day h of day d.
Tick(d, h) == d * TicksPerDay + h

Jan05 == Tick(4, 0)
Jan31 == Tick(30, 1)     \* a Sunday and a month end, in the afternoon
Feb01 == Tick(31, 0)
Mar01 == Tick(59, 0)
Jan01NextYear == Tick(365, 0)

Actor(name) == [name |-> name, email |-> name]

Kinds(authors, times, messages, lines, faults) ==
    {[author |-> Actor(a), committed_date |-> t, message |-> m,
      insertions |-> l[1], deletions |-> l[2], fault |-> f] :
        a \in authors, t \in times, m \in messages, l \in lines, f \in faults}

\* The logs of at most MaxLog commits of the given kinds; hexsha numbers
\* the commits, so that no two commits of a log are the same commit.
Logs(kinds) ==
    {[i \in 1..Len(s) |-> [hexsha |-> i] @@ s[i]] : s \in SeqsUpTo(kinds, MaxLog)}

InitWith(paths, logs, start) ==
    /\ fs_repo \in paths
    /\ fs_data = {}
    /\ log \in logs
    /\ repo = "None"
    /\ commits_df = None
    /\ contributor_stats = NoSeries
    /\ commit_trend = NoTrend
    /\ code_churn = None
    /\ trace = <<>>
    /\ raised = ""
    /\ pc = start
    /\ runs = IF start = 0 THEN 0 ELSE 1

----------------------------------------------------------------------------
(* The program: __main__ runs run_full_analysis, and may be started again *)

CloneRepo == \E ok_config, ok_git \in BOOLEAN : clone_repo(ok_config, ok_git)

ExtractCommitData == extract_commit_data

AnalyzeContributorDistribution == \E ok_io \in BOOLEAN : analyze_contributor_distribution(ok_io)

AnalyzeCommitTrend == \E freq \in Freqs, ok_io \in BOOLEAN : analyze_commit_trend(freq, ok_io)

AnalyzeCodeChurn == \E ok_io \in BOOLEAN : analyze_code_churn(ok_io)

GenerateWordcloud == \E ok_io \in BOOLEAN : generate_commit_message_wordcloud(ok_io)

RunKinds == Kinds({"A"}, {Jan05}, {<<"login", "x">>}, {<<10, 5>>}, {"none", "stats"})
                \cup Kinds({"A"}, {Jan05}, {<<"Fix">>}, {<<10, 5>>}, {"none"})

Init == InitWith({"absent", "repo", "other"}, Logs(RunKinds), 178)

Next ==
    \/ CloneRepo
    \/ ExtractCommitData
    \/ AnalyzeContributorDistribution
    \/ AnalyzeCommitTrend
    \/ AnalyzeCodeChurn
    \/ GenerateWordcloud
    \/ run_full_analysis_end
    \/ main

Spec == Init /\ [][Next]_vars

----------------------------------------------------------------------------
(* One analyzer used by hand: clone_repo until the repository is loaded,   *)
(* extract_commit_data once, then the analyses; the charts can be written. *)

Setup ==
    \/ repo = "None" /\ CloneRepo
    \/ repo = "Repo" /\ commits_df.none /\ ExtractCommitData

Contributors == analyze_contributor_distribution(TRUE)

Trend(freqs) == \E freq \in freqs : analyze_commit_trend(freq, TRUE)

Churn == analyze_code_churn(TRUE)

Wordcloud == generate_commit_message_wordcloud(TRUE)

\* The analyses in any order, any number of times.
ApiKinds == Kinds({"A"}, {Jan05, Mar01}, {<<"login", "x">>}, {<<10, 5>>}, {"none"})

InitApi == InitWith({"repo"}, Logs(ApiKinds), 0)

ApiFreqs == {"ME", "Q", "X"}

Aggregation == Contributors \/ Trend(ApiFreqs) \/ Churn \/ Wordcloud

NextApi == Setup \/ Contributors \/ Trend(ApiFreqs) \/ Churn \/ Wordcloud

SpecApi == InitApi /\ [][NextApi]_vars

\* extract_commit_data over logs with unreadable commits and equal times.
ExtractKinds == Kinds({"A"}, {Jan05, Jan31}, {<<"login", "x">>}, {<<10, 5>>},
                      {"none", "author", "stats"})

InitExtract == InitWith({"repo"}, Logs(ExtractKinds), 0)

NextExtract == Setup

SpecExtract == InitExtract /\ [][NextExtract]_vars

\* One analyze_contributor_distribution over logs of several authors.
ContribKinds == Kinds({"A", "B", "C"}, {Jan05, Jan31}, {<<"login", "x">>}, {<<10, 5>>},
                      {"none"})

InitContrib == InitWith({"repo"}, Logs(ContribKinds), 0)

NextContrib == Setup \/ (contributor_stats = NoSeries /\ Contributors)

SpecContrib == InitContrib /\ [][NextContrib]_vars

\* One analyze_commit_trend over logs spread over days, weeks and months.
TrendKinds == Kinds({"A"}, {Jan05, Jan31, Feb01, Mar01}, {<<"login", "x">>}, {<<10, 5>>},
                    {"none"})

InitTrend == InitWith({"repo"}, Logs(TrendKinds), 0)

NextTrend == Setup \/ (commit_trend = NoTrend /\ Trend(Freqs))

SpecTrend == InitTrend /\ [][NextTrend]_vars

\* One analyze_code_churn over logs of two years.
ChurnKinds == Kinds({"A"}, {Jan05, Jan01NextYear}, {<<"login", "x">>},
                    {<<10, 5>>, <<20, 5>>, <<0, 7>>}, {"none"})

InitChurn == InitWith({"repo"}, Logs(ChurnKinds), 0)

NextChurn == Setup \/ (code_churn.none /\ Churn)

SpecChurn == InitChurn /\ [][NextChurn]_vars

----------------------------------------------------------------------------
(* Properties *)

\* extract_commit_data has returned normally: the frame has its columns.
Extracted == ~commits_df.none /\ "commit_time" \in Columns(commits_df)

\* The walked commits whose fields can all be read.
Readable(commits) == SelectSeq(commits, LAMBDA c : c.fault = "none")

\* C1: after extract_commit_data completes, the table holds at most
\* max_count rows, its rows are in non-decreasing order of commit_time, and
\* its index is 0..n-1.
C1_BoundedSortedRenumbered ==
    Extracted =>
        /\ NRows(commits_df) <= max_count
        /\ \A i \in 1..(NRows(commits_df) - 1) :
              commits_df.cols["commit_time"][i] <= commits_df.cols["commit_time"][i + 1]
        /\ \A i \in 1..NRows(commits_df) : commits_df.index[i] = i - 1

\* C1 witness: a log longer than the walk, all of the walk kept, and rows
\* that the sort has moved.
C1_Witness ==
    /\ Extracted
    /\ Len(log) > max_count
    /\ NRows(commits_df) = max_count
    /\ \E i \in 1..(NRows(commits_df) - 1) :
          commits_df.cols["commit_hash"][i] > commits_df.cols["commit_hash"][i + 1]

\* C2: for every walked sequence of n >= 1 commits of which k are
\* unreadable (k = n included), extract_commit_data does not raise and the
\* table holds exactly the n - k readable commits.
C2_Original ==
    [][(extract_commit_data /\ repo = "Repo" /\ log # <<>>) =>
          /\ raised' = ""
          /\ NRows(commits_df') = Len(Readable(iter_commits(max_count)))
          /\ Range(commits_df'.cols["commit_hash"]) =
                 {c.hexsha : c \in Range(Readable(iter_commits(max_count)))}]_vars

\* C3: in run_full_analysis a failure of one aggregation step does not
\* block the other aggregation steps: each of them is still executed and
\* writes its artifact.  (In the first run data/ starts empty, so a file in
\* it was written by this run.)
Artifact(line) ==
    CASE line = 180 -> "contributor_top10.png"
      [] line = 181 -> "commit_trend_ME.png"
      [] line = 182 -> "commit_trend_W.png"
      [] line = 183 -> "code_churn_year.png"
      [] line = 184 -> "commit_message_wordcloud.png"

C3_Original ==
    (runs = 1 /\ pc \in 180..184 /\ raised # "") =>
        \A line \in (180..184) \ {pc} : Artifact(line) \in fs_data

\* C4 as stated: once the table is extracted, no aggregation call changes
\* it: columns, rows and row order are the same after the call as before.
C4_Original == [][(Extracted /\ Aggregation) => commits_df' = commits_df]_vars

\* C4 as amended: an aggregation call leaves the index, the row order and
\* every column the table has as they are; the only change is that it may
\* add the commit_date column (analyze_commit_trend) or the commit_year
\* column (analyze_code_churn).
C4_Amended ==
    [][(Extracted /\ Aggregation) =>
          /\ commits_df'.none = FALSE
          /\ commits_df'.index = commits_df.index
          /\ \A c \in Columns(commits_df) :
                c \in Columns(commits_df') /\ commits_df'.cols[c] = commits_df.cols[c]
          /\ Columns(commits_df') \ Columns(commits_df) \subseteq {"commit_date", "commit_year"}]_vars

\* C4 witness: a table of several rows after both analyze_commit_trend and
\* analyze_code_churn, and with all its charts written.
C4_Witness ==
    /\ Extracted
    /\ NRows(commits_df) >= 2
    /\ {"commit_date", "commit_year"} \subseteq Columns(commits_df)
    /\ {"contributor_top10.png", "commit_message_wordcloud.png"} \subseteq fs_data

\* C5: analyze_commit_trend with a period other than ME, W and D raises and
\* writes no file: data/ is as before the call and holds no chart of that
\* period.
C5_UnsupportedPeriodFails ==
    [][\A freq \in Freqs \ {"ME", "W", "D"} : \A ok_io \in BOOLEAN :
          analyze_commit_trend(freq, ok_io) =>
              /\ raised' # ""
              /\ fs_data' = fs_data
              /\ trend_png(freq) \notin fs_data']_vars

\* C5 witness: the period Q on an extracted table: the series is computed,
\* the label lookup raises, no chart of the period exists.
C5_Witness ==
    /\ Extracted
    /\ commit_trend.freq = "Q"
    /\ raised = "KeyError"
    /\ trend_png("Q") \notin fs_data

\* C6: clone_repo fetches (clone_from) only when the local path does not
\* exist; when the path holds a repository it opens it and fetches nothing.
C6_NoRefetch ==
    [][\A ok_config, ok_git \in BOOLEAN :
          clone_repo(ok_config, ok_git) =>
              /\ ("clone_from" \in Range(trace')) <=> (fs_repo = "absent")
              /\ fs_repo = "repo" =>
                    /\ repo' = "Repo"
                    /\ raised' = ""
                    /\ trace'[Len(trace')] = "Repo"
                    /\ fs_repo' = "repo"]_vars

\* C6 witness: the program started a second time, after a run that loaded
\* the repository and extracted, has opened the clone without fetching.
C6_Witness ==
    /\ runs = 2
    /\ pc = 179
    /\ repo = "Repo"
    /\ "clone_from" \notin Range(trace)
    /\ "commit_history.csv" \in fs_data

\* C10: in clone_repo the trust registration is attempted first, and
\* whether it succeeds or fails the open-or-fetch step follows in the same
\* call; a failed registration is printed and raises nothing.
C10_TrustFirstNonFatal ==
    trace # <<>> =>
        /\ Len(trace) = 2
        /\ trace[1] \in {"safe.directory", "safe.directory failed, printed"}
        /\ trace[2] \in {"clone_from", "Repo"}
        /\ raised \notin {"GitCommandError", "InvalidGitRepositoryError"} => repo = "Repo"

\* C10 witness: the registration failed, the clone was still made and
\* run_full_analysis went on to its next line.
C10_Witness ==
    /\ trace = <<"safe.directory failed, printed", "clone_from">>
    /\ repo = "Repo"
    /\ raised = ""
    /\ pc = 179

\* The bucket of a time at a supported period, named by its last day: the
\* day itself, the Sunday that ends its week, the last day of its month.
BucketOf(freq, t) ==
    CASE freq = "D"  -> Date(t)
      [] freq = "W"  -> CHOOSE d \in Date(t)..(Date(t) + 6) : SinceSunday(d) = 0
      [] freq = "ME" -> CHOOSE d \in Date(t)..(Date(t) + 30) :
                            /\ MonthOf(d) # MonthOf(d + 1)
                            /\ \A e \in Date(t)..(d - 1) : MonthOf(e) = MonthOf(e + 1)

\* C7: for a non-empty table and a supported period, the trend series has
\* one entry for every bucket from the bucket of the earliest commit to the
\* bucket of the latest, in order, and the count of each is the number of
\* rows whose commit_time falls in it, 0 for a bucket without rows.
C7_DenseTrend ==
    (Extracted /\ commit_trend.freq \in {"ME", "W", "D"}) =>
        LET freq  == commit_trend.freq
            times == commits_df.cols["commit_time"]
            days  == Date(MinOf(times))..Date(MaxOf(times))
            n     == Len(commit_trend.index)
        IN  /\ Len(commit_trend.values) = n
            /\ Range(commit_trend.index) = {BucketOf(freq, Tick(d, 0)) : d \in days}
            /\ \A i \in 1..(n - 1) : commit_trend.index[i] < commit_trend.index[i + 1]
            /\ \A i \in 1..n :
                  commit_trend.values[i] =
                      Cardinality({j \in 1..Len(times) :
                                      BucketOf(freq, times[j]) = commit_trend.index[i]})

\* C7 witness: commits in January and in March only, by month: February
\* is in the series with count 0.
C7_Witness ==
    /\ Extracted
    /\ commit_trend.freq = "ME"
    /\ commit_trend.index = <<30, 58, 89>>
    /\ commit_trend.values[1] > 0
    /\ commit_trend.values[2] = 0
    /\ commit_trend.values[3] > 0

\* The row at which an author first appears in the table.
FirstRow(author) ==
    CHOOSE i \in 1..NRows(commits_df) :
        /\ commits_df.cols["author_name"][i] = author
        /\ \A j \in 1..(i - 1) : commits_df.cols["author_name"][j] # author

Commits(author) == Cardinality({i \in 1..NRows(commits_df) :
                                    commits_df.cols["author_name"][i] = author})

\* a ranks before b: more commits, or as many and a first appearance
\* earlier in the table.
RanksBefore(a, b) ==
    \/ Commits(a) > Commits(b)
    \/ Commits(a) = Commits(b) /\ FirstRow(a) < FirstRow(b)

\* C8: analyze_contributor_distribution returns the authors by descending
\* count, equal counts in order of first appearance in the table, keeping
\* the first head_n of that ranking (all authors when there are no more).
C8_Original ==
    (Extracted /\ contributor_stats # NoSeries) =>
        LET authors == Range(commits_df.cols["author_name"])
            top     == contributor_stats.index
            n       == Len(top)
        IN  /\ n = IF Cardinality(authors) < head_n THEN Cardinality(authors) ELSE head_n
            /\ \A i \in 1..n : top[i] \in authors /\ contributor_stats.values[i] = Commits(top[i])
            /\ \A i, j \in 1..n : i < j => RanksBefore(top[i], top[j])
            /\ \A a \in authors \ Range(top) : \A i \in 1..n : RanksBefore(top[i], a)

\* The sum of vals over a set of rows.
RECURSIVE SumOver(_, _)
SumOver(vals, rows) ==
    IF rows = {} THEN 0
    ELSE LET i == CHOOSE r \in rows : TRUE
         IN  vals[i] + SumOver(vals, rows \ {i})

\* C9: analyze_code_churn yields one row per calendar year that has a
\* record, years ascending; insertions and deletions of a year are the sums
\* over that year's records, and net_change is insertions - deletions.
C9_ChurnByYear ==
    (Extracted /\ ~code_churn.none) =>
        LET times  == commits_df.cols["commit_time"]
            rows   == 1..NRows(commits_df)
            of(y)  == {i \in rows : Year(times[i]) = y}
            n      == Len(code_churn.index)
        IN  /\ Range(code_churn.index) = {Year(times[i]) : i \in rows}
            /\ \A i \in 1..(n - 1) : code_churn.index[i] < code_churn.index[i + 1]
            /\ \A i \in 1..n :
                  LET y == code_churn.index[i] IN
                  /\ code_churn.cols["insertions"][i] =
                         SumOver(commits_df.cols["insertions"], of(y))
                  /\ code_churn.cols["deletions"][i] =
                         SumOver(commits_df.cols["deletions"], of(y))
                  /\ code_churn.cols["net_change"][i] =
                         SumOver(commits_df.cols["insertions"], of(y))
                             - SumOver(commits_df.cols["deletions"], of(y))

\* C9 witness: a year with insertions 10 and 20 and deletions 5 and 5 gives
\* 30, 10 and 20; the next year, with 7 deletions only, gives -7.
C9_Witness ==
    /\ Extracted
    /\ code_churn.index = <<2021, 2022>>
    /\ code_churn.cols["insertions"] = <<30, 0>>
    /\ code_churn.cols["deletions"] = <<10, 7>>
    /\ code_churn.cols["net_change"] = <<20, -7>>

====
